---- MODULE Spec2Model ----
(***************************************************************************)
(* A model of the mission-briefing script (src/src/challenge/              *)
(* challenge.three.ts, lines 1-497): argument parsing, the NEO date range, *)
(* the five upstream adapters behind the timing wrapper, the Promise.all   *)
(* fan-out of main, the NEO summary, the threat score and the single write *)
(* of briefing.json.                                                       *)
(*                                                                         *)
(* JavaScript strings are sequences of one-character strings, so that      *)
(* startsWith, slice, the date regular expression and Number() are         *)
(* computed on the characters.  Numbers are exact rationals [num, den].    *)
(***************************************************************************)
EXTENDS Integers, Sequences, FiniteSets, TLC

(***************************************************************************)
(* Strings                                                                 *)
(***************************************************************************)
DigitChars == <<"0", "1", "2", "3", "4", "5", "6", "7", "8", "9">>

IsDigit(c) == \E i \in 1..10 : DigitChars[i] = c

DigitVal(c) == (CHOOSE i \in 1..10 : DigitChars[i] = c) - 1

AllDigits(s) == \A i \in 1..Len(s) : IsDigit(s[i])

RECURSIVE DigitsValue(_)
DigitsValue(s) ==
    IF s = <<>> THEN 0
    ELSE 10 * DigitsValue(SubSeq(s, 1, Len(s) - 1)) + DigitVal(s[Len(s)])

RECURSIVE Pow10(_)
Pow10(n) == IF n = 0 THEN 1 ELSE 10 * Pow10(n - 1)

\* String.prototype.startsWith
StartsWith(s, p) == Len(s) >= Len(p) /\ SubSeq(s, 1, Len(p)) = p

\* String.prototype.slice(n) for n >= 0
SliceFrom(s, n) == SubSeq(s, n + 1, Len(s))

\* String.prototype.slice(0, n)
SliceTo(s, n) == SubSeq(s, 1, IF Len(s) < n THEN Len(s) ELSE n)

\* the value undefined: no string of characters equals it
Undefined == <<"undefined">>

\* a value used as a condition: undefined and "" are falsy
Truthy(v) == v # Undefined /\ v # <<>>

\* a ?? b
Coalesce(a, b) == IF a = Undefined THEN b ELSE a

DashDash == <<"-", "-">>
S_true == <<"t", "r", "u", "e">>
S_city == <<"c", "i", "t", "y">>
S_days == <<"d", "a", "y", "s">>
S_mode == <<"m", "o", "d", "e">>
S_date == <<"d", "a", "t", "e">>
S_stealth == <<"s", "t", "e", "a", "l", "t", "h">>
S_verbose == <<"v", "e", "r", "b", "o", "s", "e">>
S_loud == <<"l", "o", "u", "d">>
S_Pune == <<"P", "u", "n", "e">>
S_3 == <<"3">>

(***************************************************************************)
(* Numbers: Number(string) as an exact rational, or NaN                    *)
(***************************************************************************)
NaN == [nan |-> TRUE, num |-> 0, den |-> 1]

Num(n, d) == [nan |-> FALSE, num |-> n, den |-> d]

IsNaN(x) == x.nan

DotPositions(s) == {i \in 1..Len(s) : s[i] = "."}

S_Infinity == <<"I", "n", "f", "i", "n", "i", "t", "y">>

\* Number(s) for the decimal literals [+-]digits[.digits] and [+-]Infinity
\* (sign/0); "" is 0; anything else (undefined, "true", "abc") is NaN
NumberOf(s) ==
    IF s = <<>> THEN Num(0, 1)
    ELSE LET signed == s[1] \in {"-", "+"}
             sign == IF s[1] = "-" THEN -1 ELSE 1
             body == IF signed THEN Tail(s) ELSE s
             dots == DotPositions(body)
         IN  IF body = S_Infinity THEN Num(sign, 0)
             ELSE IF dots = {}
             THEN IF body # <<>> /\ AllDigits(body)
                  THEN Num(sign * DigitsValue(body), 1)
                  ELSE NaN
             ELSE IF Cardinality(dots) = 1
             THEN LET p == CHOOSE i \in dots : TRUE
                      ip == SubSeq(body, 1, p - 1)
                      fp == SubSeq(body, p + 1, Len(body))
                  IN  IF AllDigits(ip) /\ AllDigits(fp) /\ Len(ip) + Len(fp) > 0
                      THEN Num(sign * DigitsValue(ip \o fp), Pow10(Len(fp)))
                      ELSE NaN
             ELSE NaN

\* x < n for an integer n; false for NaN
LessThanInt(x, n) == ~x.nan /\ x.num < n * x.den

\* !x for a number: 0 and NaN are falsy
NumFalsy(x) == x.nan \/ x.num = 0

\* Math.min(x, n) for a number x that is not NaN
MinInt(x, n) == IF LessThanInt(x, n) THEN x ELSE Num(n, 1)

\* x - n
MinusInt(x, n) == Num(x.num - n * x.den, x.den)

\* integer part toward zero (ToIntegerOrInfinity) of a number >= 0
TruncNonNeg(x) == x.num \div x.den

(***************************************************************************)
(* parseArgs                                                               *)
(***************************************************************************)
Lookup(parsed, key) == IF key \in DOMAIN parsed THEN parsed[key] ELSE Undefined

\* the token loop of parseArgs: i is the 1-based index into args
RECURSIVE ParseLoop(_, _, _)
ParseLoop(args, i, parsed) ==
    IF i > Len(args) THEN parsed
    ELSE LET token == args[i]
         IN  IF ~StartsWith(token, DashDash) THEN ParseLoop(args, i + 1, parsed)
             ELSE LET key == SliceFrom(token, 2)
                      value == IF i + 1 <= Len(args) THEN args[i + 1] ELSE Undefined
                  IN  IF Truthy(value) /\ ~StartsWith(value, DashDash)
                      THEN ParseLoop(args, i + 2, (key :> value) @@ parsed)
                      ELSE ParseLoop(args, i + 1, (key :> S_true) @@ parsed)

\* /^\d{4}-\d{2}-\d{2}$/.test(date)
DateRegexTest(s) ==
    /\ Len(s) = 10
    /\ s[5] = "-" /\ s[8] = "-"
    /\ \A i \in {1, 2, 3, 4, 6, 7, 9, 10} : IsDigit(s[i])

E_city == "Missing required argument: --city \"City Name\""
E_days == "Missing or invalid argument: --days <number>"
E_mode == "Invalid --mode. Use stealth or verbose."
E_date == "Invalid --date. Use YYYY-MM-DD."

\* line 141: !days || Number.isNaN(days) || days < 1
\* the check without its lower bound
DaysInvalid_NoFloor(days) == NumFalsy(days) \/ IsNaN(days)

DaysInvalid(days) == NumFalsy(days) \/ IsNaN(days) \/ LessThanInt(days, 1)

\* parseArgs(argv) with today = new Date().toISOString().slice(0, 10):
\* [ok |-> TRUE, city, days, mode, date] or [ok |-> FALSE, err]
parseArgs(argv, today) ==
    LET args == SliceFrom(argv, 2)
        parsed == ParseLoop(args, 1, <<>>)
        city == Lookup(parsed, S_city)
        days == NumberOf(Coalesce(Lookup(parsed, S_days), S_3))
        mode == Coalesce(Lookup(parsed, S_mode), S_stealth)
        date == Coalesce(Lookup(parsed, S_date), today)
    IN  IF ~Truthy(city) THEN [ok |-> FALSE, err |-> E_city]
        ELSE IF DaysInvalid(days)
             THEN [ok |-> FALSE, err |-> E_days]
        ELSE IF mode # S_stealth /\ mode # S_verbose
             THEN [ok |-> FALSE, err |-> E_mode]
        ELSE IF ~DateRegexTest(date) THEN [ok |-> FALSE, err |-> E_date]
        ELSE [ok |-> TRUE, city |-> city, days |-> days, mode |-> mode,
              date |-> date]

(***************************************************************************)
(* Dates: new Date(`${d}T00:00:00Z`), setUTCDate, toISOString              *)
(***************************************************************************)
\* day number (days since 1970-01-01) of year y, month m (1..12), day d of
\* the proleptic Gregorian calendar; d may exceed the month (MakeDay)
MakeDay(y, m, d) ==
    LET yy == IF m <= 2 THEN y - 1 ELSE y
        era == yy \div 400
        yoe == yy - era * 400
        mp == IF m > 2 THEN m - 3 ELSE m + 9
        doy == (153 * mp + 2) \div 5 + d - 1
        doe == yoe * 365 + yoe \div 4 - yoe \div 100 + doy
    IN  era * 146097 + doe - 719468

\* YearFromTime, MonthFromTime, DateFromTime of a day number
CivilFromDay(t) ==
    LET z == t + 719468
        era == z \div 146097
        doe == z - era * 146097
        yoe == (doe - doe \div 1460 + doe \div 36524 - doe \div 146096) \div 365
        doy == doe - (365 * yoe + yoe \div 4 - yoe \div 100)
        mp == (5 * doy + 2) \div 153
        d == doy - (153 * mp + 2) \div 5 + 1
        m == IF mp < 10 THEN mp + 3 ELSE mp - 9
        y == yoe + era * 400 + (IF m <= 2 THEN 1 ELSE 0)
    IN  [y |-> y, m |-> m, d |-> d]

IsLeap(y) == (y % 4 = 0 /\ y % 100 # 0) \/ y % 400 = 0

DaysInMonth(y, m) ==
    IF m = 2 THEN (IF IsLeap(y) THEN 29 ELSE 28)
    ELSE IF m \in {4, 6, 9, 11} THEN 30 ELSE 31

\* n written with at least w digits
RECURSIVE Pad(_, _)
Pad(n, w) ==
    IF w <= 1 /\ n < 10 THEN <<DigitChars[n + 1]>>
    ELSE Pad(n \div 10, w - 1) \o <<DigitChars[(n % 10) + 1]>>

\* the date part of Date.prototype.toISOString followed by "T": years above
\* 9999 are written expanded, "+" and six digits
IsoDatePart(c) ==
    (IF c.y > 9999 THEN <<"+">> \o Pad(c.y, 6) ELSE Pad(c.y, 4))
        \o <<"-">> \o Pad(c.m, 2) \o <<"-">> \o Pad(c.d, 2) \o <<"T">>

\* Date.parse of `${s}T00:00:00Z` for s matching the date regex: a day number,
\* or NaN.  The month must be 1..12; an engine is free to accept a day up to
\* 31 in any month (V8 does, and rolls it over) or to reject it.
ParseDate(s, lenient) ==
    LET y == DigitsValue(SubSeq(s, 1, 4))
        m == DigitsValue(SubSeq(s, 6, 7))
        d == DigitsValue(SubSeq(s, 9, 10))
    IN  IF m \in 1..12 /\ d >= 1
           /\ d <= (IF lenient THEN 31 ELSE DaysInMonth(y, m))
        THEN [nan |-> FALSE, t |-> MakeDay(y, m, d)]
        ELSE [nan |-> TRUE, t |-> 0]

E_range == "Invalid time value"

\* addDays(yyyyMmDd, days) for days >= 0: [ok |-> TRUE, date] or the
\* RangeError of toISOString on an invalid date
addDays(yyyyMmDd, days, lenient) ==
    LET p == ParseDate(yyyyMmDd, lenient)
        c == CivilFromDay(p.t)
        t2 == MakeDay(c.y, c.m, TruncNonNeg(Num(c.d * days.den + days.num, days.den)))
    IN  IF p.nan THEN [ok |-> FALSE, err |-> E_range]
        ELSE [ok |-> TRUE, date |-> SliceTo(IsoDatePart(CivilFromDay(t2)), 10)]

\* main, lines 414-416: neoDays, startDate, endDate
NeoDaysOf(days) == MinInt(days, 7)

DeriveRange(days, date, lenient) ==
    LET neoDays == NeoDaysOf(days)
        e == addDays(date, MinusInt(neoDays, 1), lenient)
    IN  IF e.ok
        THEN [ok |-> TRUE, neoDays |-> neoDays, startDate |-> date,
              endDate |-> e.date]
        ELSE [ok |-> FALSE, err |-> e.err]

(***************************************************************************)
(* Arithmetic on numbers: a number is num/den with den > 0, +Infinity is   *)
(* 1/0, and NaN is flagged                                                 *)
(***************************************************************************)
RECURSIVE Gcd(_, _)
Gcd(a, b) == IF b = 0 THEN a ELSE Gcd(b, a % b)

Abs(n) == IF n < 0 THEN -n ELSE n

Reduce(n, d) == LET g == Gcd(Abs(n), d) IN Num(n \div g, d \div g)

Whole(n) == Num(n, 1)

PositiveInfinity == Num(1, 0)

\* Number.isFinite
IsFinite(x) == ~x.nan /\ x.den > 0

\* a < b for numbers that are not NaN (either may be +Infinity or -Infinity)
Less(a, b) ==
    IF a.den = 0 THEN a.num < 0 /\ ~(b.den = 0 /\ b.num < 0)
    ELSE IF b.den = 0 THEN b.num > 0
    ELSE LET g == Gcd(a.den, b.den)
         IN  a.num * (b.den \div g) < b.num * (a.den \div g)

\* a + b, a - b, a * b, a / n for finite numbers
Plus(a, b) ==
    LET g == Gcd(a.den, b.den)
    IN  Reduce(a.num * (b.den \div g) + b.num * (a.den \div g),
               (a.den \div g) * b.den)

Minus(a, b) == Plus(a, Num(-b.num, b.den))

Times(a, b) ==
    LET g1 == Gcd(Abs(a.num), b.den)
        g2 == Gcd(Abs(b.num), a.den)
    IN  Num((a.num \div g1) * (b.num \div g2), (a.den \div g2) * (b.den \div g1))

DivInt(a, n) == LET g == Gcd(Abs(a.num), n) IN  Num(a.num \div g, a.den * (n \div g))

\* Math.max, Math.min of two numbers that are not NaN
Max(a, b) == IF Less(a, b) THEN b ELSE a

Min(a, b) == IF Less(b, a) THEN b ELSE a

\* Math.round of a finite number: the integer floor(x + 1/2)
Round(x) == LET y == Plus(x, Num(1, 2)) IN y.num \div y.den

(***************************************************************************)
(* JSON objects are records; a property that is absent is not in DOMAIN    *)
(***************************************************************************)
Has(obj, f) == f \in DOMAIN obj

\* obj.f for a string-valued property: undefined when absent
Get(obj, f) == IF f \in DOMAIN obj THEN obj[f] ELSE Undefined

NoFields == [f \in {} |-> Undefined]

(***************************************************************************)
(* summarizeNeos                                                           *)
(***************************************************************************)
\* the flattening loop, lines 328-332: near_earth_objects is the sequence of
\* the arrays of its keys, in key order
RECURSIVE Flatten(_)
Flatten(arrays) ==
    IF arrays = <<>> THEN <<>> ELSE Head(arrays) \o Flatten(Tail(arrays))

AllNeos(feed) ==
    IF Has(feed, "near_earth_objects") THEN Flatten(feed.near_earth_objects)
    ELSE <<>>

\* the accumulators before the loop, lines 334-341
SummaryStart ==
    [totalCount |-> 0, hazardousCount |-> 0,
     maxEstimatedDiameterMeters |-> Whole(0),
     minMissDistanceKm |-> PositiveInfinity,
     lt3 |-> 0, gte3lt4 |-> 0, gte4 |-> 0]

Hazardous(neo) ==
    Has(neo, "is_potentially_hazardous_asteroid")
        /\ neo.is_potentially_hazardous_asteroid

\* neo.close_approach_data?.[0]?.miss_distance?.kilometers
FirstMiss(neo) ==
    IF Has(neo, "close_approach_data") /\ Len(neo.close_approach_data) >= 1
    THEN Get(neo.close_approach_data[1], "kilometers")
    ELSE Undefined

\* the bucket counters after one object, lines 351-354
Buckets(acc, magGuess) ==
    IF Less(magGuess, Whole(3)) THEN [acc EXCEPT !.lt3 = @ + 1]
    ELSE IF Less(magGuess, Whole(4)) THEN [acc EXCEPT !.gte3lt4 = @ + 1]
    ELSE [acc EXCEPT !.gte4 = @ + 1]

\* one iteration of the loop, lines 343-360
SummarizeStep(acc, neo) ==
    LET a1 == [acc EXCEPT !.totalCount = @ + 1]
        a2 == IF Hazardous(neo) THEN [a1 EXCEPT !.hazardousCount = @ + 1] ELSE a1
        a3 == IF Has(neo, "estimated_diameter_max")
                 /\ Less(a2.maxEstimatedDiameterMeters, neo.estimated_diameter_max)
              THEN [a2 EXCEPT !.maxEstimatedDiameterMeters = neo.estimated_diameter_max]
              ELSE a2
        magGuess == IF Hazardous(neo) THEN Num(40, 10) ELSE Num(29, 10)
        a4 == Buckets(a3, magGuess)
        miss == FirstMiss(neo)
        missKm == IF Truthy(miss) THEN NumberOf(miss) ELSE PositiveInfinity
    IN  IF ~IsNaN(missKm) /\ Less(missKm, a4.minMissDistanceKm)
        THEN [a4 EXCEPT !.minMissDistanceKm = missKm]
        ELSE a4

\* lines 362-371: the floor of the minimum and the returned summary
SummaryResult(acc, days) ==
    [days |-> days,
     totalCount |-> acc.totalCount,
     hazardousCount |-> acc.hazardousCount,
     maxEstimatedDiameterMeters |-> acc.maxEstimatedDiameterMeters,
     minMissDistanceKm |-> IF ~IsFinite(acc.minMissDistanceKm) THEN Whole(0)
                           ELSE acc.minMissDistanceKm,
     buckets |-> [lt3 |-> acc.lt3, gte3lt4 |-> acc.gte3lt4, gte4 |-> acc.gte4]]

RECURSIVE SummarizeLoop(_, _)
SummarizeLoop(acc, all) ==
    IF all = <<>> THEN acc
    ELSE SummarizeLoop(SummarizeStep(acc, Head(all)), Tail(all))

summarizeNeos(feed, days) ==
    SummaryResult(SummarizeLoop(SummaryStart, AllNeos(feed)), days)

(***************************************************************************)
(* computeThreat                                                           *)
(***************************************************************************)
\* the miss risk without its case for a minimum of exactly 0
MissRisk_NoZeroCase(neo) ==
    Max(Whole(0), Minus(Whole(3), DivInt(neo.minMissDistanceKm, 1000000)))

MissRisk(neo) ==
    IF neo.minMissDistanceKm.num = 0 THEN Whole(0)
    ELSE Max(Whole(0), Minus(Whole(3), DivInt(neo.minMissDistanceKm, 1000000)))

SizeRisk(neo) == Min(Whole(5), DivInt(neo.maxEstimatedDiameterMeters, 100))

IssRisk(issDistanceKm) == Max(Whole(0), Minus(Whole(2), DivInt(issDistanceKm, 2000)))

LaunchRisk(hoursToLaunch) == Max(Whole(0), Minus(Whole(2), DivInt(hoursToLaunch, 24)))

\* a score that counts the objects that are not hazardous
ThreatScore_CountingSafe(neo, issDistanceKm, hoursToLaunch) ==
    Round(Plus(Plus(Plus(Plus(Plus(
        Times(Whole(neo.totalCount - neo.hazardousCount), Whole(3)),
        Times(Whole(neo.totalCount), Num(2, 10))),
        Times(MissRisk(neo), Whole(4))),
        Times(SizeRisk(neo), Whole(2))),
        Times(IssRisk(issDistanceKm), Whole(2))),
        Times(LaunchRisk(hoursToLaunch), Whole(1))))

\* lines 387-394
ThreatScore(neo, issDistanceKm, hoursToLaunch) ==
    Round(Plus(Plus(Plus(Plus(Plus(
        Times(Whole(neo.hazardousCount), Whole(3)),
        Times(Whole(neo.totalCount), Num(2, 10))),
        Times(MissRisk(neo), Whole(4))),
        Times(SizeRisk(neo), Whole(2))),
        Times(IssRisk(issDistanceKm), Whole(2))),
        Times(LaunchRisk(hoursToLaunch), Whole(1))))

\* lines 396-397
ThreatLevel(score) ==
    IF score >= 18 THEN "HIGH" ELSE IF score >= 10 THEN "MEDIUM" ELSE "LOW"

computeThreat(neo, issDistanceKm, hoursToLaunch) ==
    LET score == ThreatScore(neo, issDistanceKm, hoursToLaunch)
    IN  [score |-> score, level |-> ThreatLevel(score)]

(***************************************************************************)
(* Specification SpecRange: parseArgs and the date range as functions of   *)
(* the command line                                                        *)
(***************************************************************************)
VARIABLES rArgv, rToday, rParsed, rRange, rPc

rvars == <<rArgv, rToday, rParsed, rRange, rPc>>

None == [ok |-> FALSE, err |-> "none"]

Opt(key) == DashDash \o key

\* the years the dates are drawn from: a leap year, a common year, a common
\* century year, a leap century year and the last four-digit year
RangeYears == {2023, 2024, 2100, 2000, 9999}
MaxMonth == 13
MaxDay == 31

RangeDates ==
    {Pad(y, 4) \o <<"-">> \o Pad(m, 2) \o <<"-">> \o Pad(d, 2) :
        y \in RangeYears, m \in 0..MaxMonth, d \in 0..MaxDay}

RangeDayTokens ==
    {<<"1">>, <<"2">>, <<"3">>, <<"7">>, <<"8">>, <<"1", "0">>,
     <<"2", ".", "5">>, <<"0", ".", "5">>, <<"0">>, <<"-", "2">>, <<"x">>}

NodeArgv0 == <<<<"n", "o", "d", "e">>, <<"s", "c", "r", "i", "p", "t">>>>

RangeInit ==
    /\ rArgv \in {NodeArgv0 \o <<Opt(S_city), S_Pune>> \o dd \o <<Opt(S_date), dt>> :
                    dd \in {<<>>, <<Opt(S_days)>>}
                           \cup {<<Opt(S_days), v>> : v \in RangeDayTokens},
                    dt \in RangeDates}
    /\ rToday = <<"2", "0", "2", "4", "-", "0", "1", "-", "0", "1">>
    /\ rParsed = None
    /\ rRange = None
    /\ rPc = "start"

RangeParse ==
    /\ rPc = "start"
    /\ rParsed' = parseArgs(rArgv, rToday)
    /\ rPc' = IF rParsed'.ok THEN "parsed" ELSE "rejected"
    /\ UNCHANGED <<rArgv, rToday, rRange>>

RangeDerive ==
    /\ rPc = "parsed"
    /\ \E lenient \in BOOLEAN :
           rRange' = DeriveRange(rParsed.days, rParsed.date, lenient)
    /\ rPc' = IF rRange'.ok THEN "derived" ELSE "threw"
    /\ UNCHANGED <<rArgv, rToday, rParsed>>


(***************************************************************************)
(* The calendar, stated apart from the day-number arithmetic above         *)
(***************************************************************************)
DateFields(s) ==
    [y |-> DigitsValue(SubSeq(s, 1, 4)), m |-> DigitsValue(SubSeq(s, 6, 7)),
     d |-> DigitsValue(SubSeq(s, 9, 10))]

IsCalendarDate(s) ==
    LET c == DateFields(s)
    IN  c.m \in 1..12 /\ c.d >= 1 /\ c.d <= DaysInMonth(c.y, c.m)

NextCalendarDay(c) ==
    IF c.d < DaysInMonth(c.y, c.m) THEN [c EXCEPT !.d = c.d + 1]
    ELSE IF c.m < 12 THEN [y |-> c.y, m |-> c.m + 1, d |-> 1]
    ELSE [y |-> c.y + 1, m |-> 1, d |-> 1]

RECURSIVE PlusCalendarDays(_, _)
PlusCalendarDays(c, k) ==
    IF k = 0 THEN c ELSE PlusCalendarDays(NextCalendarDay(c), k - 1)

YyyyMmDd(c) == Pad(c.y, 4) \o <<"-">> \o Pad(c.m, 2) \o <<"-">> \o Pad(c.d, 2)

S_20240101 == <<"2", "0", "2", "4", "-", "0", "1", "-", "0", "1">>
S_20240107 == <<"2", "0", "2", "4", "-", "0", "1", "-", "0", "7">>

\* C5 as stated: for every accepted days value and start date, the start date
\* of the feed is the input date and the end date is the start date plus
\* min(days, 7) - 1 calendar days (so a whole number of days, at most 6).
C5_AsStated ==
    rPc = "derived" =>
        /\ rRange.startDate = rParsed.date
        /\ \E k \in 0..6 :
              /\ k * MinInt(rParsed.days, 7).den
                    = MinInt(rParsed.days, 7).num - MinInt(rParsed.days, 7).den
              /\ rRange.endDate
                    = YyyyMmDd(PlusCalendarDays(DateFields(rParsed.date), k))

\* C5 on calendar dates: the start date is the input date; when the input is
\* a real calendar date and the end date falls in a four-digit year, the end date
\* is the start date plus floor(min(days, 7) - 1) calendar days, at most 6
\* (whole days: exactly min(days, 7) - 1); days=10 from 2024-01-01 ends on
\* 2024-01-07.
C5_Range ==
    rPc = "derived" =>
        LET n == MinInt(rParsed.days, 7)
            k == (n.num - n.den) \div n.den
            e == PlusCalendarDays(DateFields(rParsed.date), k)
        IN  /\ rRange.startDate = rParsed.date
            /\ k \in 0..6
            /\ (rParsed.days.den = 1 => k = n.num - 1)
            /\ (IsCalendarDate(rParsed.date) /\ e.y <= 9999
                    => rRange.endDate = YyyyMmDd(e))
            /\ (rParsed.days = Num(10, 1) /\ rParsed.date = S_20240101
                    => rRange.endDate = S_20240107)

\* C5 witness: days=10 from 2024-01-01 has been derived, ending 2024-01-07
C5_Witness ==
    /\ rPc = "derived"
    /\ rParsed.days = Num(10, 1)
    /\ rRange.startDate = S_20240101
    /\ rRange.endDate = S_20240107

(***************************************************************************)
(* Specification SpecNeo: summarizeNeos object by object, then             *)
(* computeThreat, over bounded feeds                                       *)
(***************************************************************************)
VARIABLES nFeed, nDays, nAll, nAcc, nSummary, nIss, nHours, nThreat, nRaised, nPc

nvars == <<nFeed, nDays, nAll, nAcc, nSummary, nIss, nHours, nThreat, nRaised, nPc>>

MaxObjects == 2
MaxHazardous == 4

S_5000000 == <<"5", "0", "0", "0", "0", "0", "0">>
S_2500000 == <<"2", "5", "0", "0", "0", "0", "0">>
S_abc == <<"a", "b", "c">>

\* the first close-approach entries a feed object is given: none at all, one
\* without a distance, an unparseable one, and distances in kilometres, one
\* of them below zero and one "-Infinity"; the last has a nearer second entry
ApproachChoices ==
    {<<>>, <<NoFields>>, <<[kilometers |-> S_abc]>>, <<[kilometers |-> <<"0">>]>>,
     <<[kilometers |-> S_5000000]>>, <<[kilometers |-> S_2500000]>>,
     <<[kilometers |-> <<"-", "5">>]>>,
     <<[kilometers |-> <<"-">> \o S_Infinity]>>,
     <<[kilometers |-> S_5000000], [kilometers |-> <<"7">>]>>}

DiameterChoices == {Whole(50), Whole(600)}

NeoObjects ==
    {[is_potentially_hazardous_asteroid |-> h, close_approach_data |-> c] :
        h \in BOOLEAN, c \in ApproachChoices}
    \cup {[is_potentially_hazardous_asteroid |-> h, estimated_diameter_max |-> d,
           close_approach_data |-> c] :
        h \in BOOLEAN, d \in DiameterChoices, c \in {<<>>, <<[kilometers |-> S_5000000]>>}}
    \cup {[is_potentially_hazardous_asteroid |-> FALSE, estimated_diameter_max |-> Whole(50)]}

RECURSIVE SeqsUpTo(_, _)
SeqsUpTo(S, n) ==
    IF n = 0 THEN {<<>>}
    ELSE LET shorter == SeqsUpTo(S, n - 1)
         IN  shorter \cup {Append(q, x) : q \in shorter, x \in S}

\* a feed keeps its objects under two dates; a body without
\* near_earth_objects is a feed too
NeoFeeds ==
    {[near_earth_objects |->
         <<SubSeq(all, 1, (Len(all) + 1) \div 2),
           SubSeq(all, (Len(all) + 1) \div 2 + 1, Len(all))>>] :
        all \in SeqsUpTo(NeoObjects, MaxObjects)}
    \cup {NoFields}

IssGrid == {Whole(0), Whole(3000)}
HoursGrid == {Whole(0), Whole(60), Whole(-24)}

NoSummary == [totalCount |-> -1]
NoThreat == [score |-> -1, level |-> "none"]

NeoInit ==
    /\ nFeed \in NeoFeeds
    /\ nDays = Whole(3)
    /\ nAll = <<>>
    /\ nAcc = SummaryStart
    /\ nSummary = NoSummary
    /\ nIss = Whole(0)
    /\ nHours = Whole(0)
    /\ nThreat = NoThreat
    /\ nRaised = [summary |-> NoSummary, threat |-> NoThreat]
    /\ nPc = "start"

\* lines 328-341
NeoStart ==
    /\ nPc = "start"
    /\ nAll' = AllNeos(nFeed)
    /\ nAcc' = SummaryStart
    /\ nPc' = "loop"
    /\ UNCHANGED <<nFeed, nDays, nSummary, nIss, nHours, nThreat, nRaised>>

\* lines 343-360, one object
NeoLoopStep ==
    /\ nPc = "loop"
    /\ nAll # <<>>
    /\ nAcc' = SummarizeStep(nAcc, Head(nAll))
    /\ nAll' = Tail(nAll)
    /\ UNCHANGED <<nFeed, nDays, nSummary, nIss, nHours, nThreat, nRaised, nPc>>

\* lines 362-371
NeoReturn ==
    /\ nPc = "loop"
    /\ nAll = <<>>
    /\ nSummary' = SummaryResult(nAcc, nDays)
    /\ nPc' = "summarized"
    /\ UNCHANGED <<nFeed, nDays, nAll, nAcc, nIss, nHours, nThreat, nRaised>>

\* computeThreat on the summary, for some ISS distance and hours to launch
ThreatEval ==
    /\ nPc = "summarized"
    /\ \E iss \in IssGrid, hours \in HoursGrid :
          /\ nIss' = iss
          /\ nHours' = hours
          /\ nThreat' = computeThreat(nSummary, iss, hours)
    /\ nPc' = "scored"
    /\ UNCHANGED <<nFeed, nDays, nAll, nAcc, nSummary, nRaised>>

\* computeThreat on the same summary with only hazardousCount larger
ThreatRaise ==
    /\ nPc = "scored"
    /\ \E h \in (nSummary.hazardousCount + 1)..MaxHazardous :
          LET raised == [nSummary EXCEPT !.hazardousCount = h]
          IN  nRaised' = [summary |-> raised,
                          threat |-> computeThreat(raised, nIss, nHours)]
    /\ nPc' = "compared"
    /\ UNCHANGED <<nFeed, nDays, nAll, nAcc, nSummary, nIss, nHours, nThreat>>


(***************************************************************************)
(* haversineKm on coordinates that are multiples of 90 degrees, where the  *)
(* squared sines and the cosines are rational: a is 0, 1/2 or 1 and the    *)
(* distance is 6371 * c for c = 0, pi/2 or pi, kept to the metre           *)
(***************************************************************************)
QuarterTurns(x) == (x.num \div (90 * x.den)) % 4

\* Math.sin(toRad(deg) / 2) squared
SinHalfSquared(deg) ==
    LET q == QuarterTurns(deg)
    IN  IF q = 0 THEN Whole(0) ELSE IF q = 2 THEN Whole(1) ELSE Num(1, 2)

\* Math.cos(toRad(deg))
Cos(deg) ==
    LET q == QuarterTurns(deg)
    IN  IF q = 0 THEN Whole(1) ELSE IF q = 2 THEN Whole(-1) ELSE Whole(0)

haversineKm(lat1, lon1, lat2, lon2) ==
    LET dLat == Minus(lat2, lat1)
        dLon == Minus(lon2, lon1)
        a == Plus(SinHalfSquared(dLat),
                  Times(Times(Cos(lat1), Cos(lat2)), SinHalfSquared(dLon)))
    IN  IF a.num = 0 THEN Whole(0)
        ELSE IF Less(a, Whole(1)) THEN Num(10007543, 1000)
        ELSE Num(20015087, 1000)

(***************************************************************************)
(* Errors, the timing wrapper and the five adapters.  A reply is what the  *)
(* HTTP client's get settles with: a transport error (no response within   *)
(* the timeout, no connection), or a response of any status, because the   *)
(* client is made with validateStatus: () => true.                         *)
(***************************************************************************)
Err(type, text, arg) == [type |-> type, text |-> text, arg |-> arg]

NoError == Err("none", <<>>, <<>>)

TransportError == [kind |-> "error"]

Response(status, data) == [kind |-> "response", status |-> status, data |-> data]

AdapterName(a) ==
    CASE a = "city" -> "Nominatim search"
      [] a = "iss" -> "ISS now"
      [] a = "spacex" -> "SpaceX next"
      [] a = "apod" -> "NASA APOD"
      [] a = "neo" -> "NASA NEO feed"

\* a wrapper that records every call as a success
timed_AlwaysOk(name, reply) ==
    IF reply.kind = "response"
    THEN [log |-> [name |-> name, status |-> reply.status, ok |-> TRUE],
          ok |-> TRUE, res |-> reply]
    ELSE [log |-> [name |-> name, ok |-> TRUE],
          ok |-> FALSE, err |-> Err("Error", <<name, " failed">>, <<>>)]

\* timed(name, fn, log) once fn has settled with reply: the record handed to
\* log (without the elapsed milliseconds) and the result or the error thrown
timed(name, reply) ==
    IF reply.kind = "response"
    THEN [log |-> [name |-> name, status |-> reply.status, ok |-> TRUE],
          ok |-> TRUE, res |-> reply]
    ELSE [log |-> [name |-> name, ok |-> FALSE],
          ok |-> FALSE, err |-> Err("Error", <<name, " failed">>, <<>>)]

Thrown(t, e) == [log |-> t.log, ok |-> FALSE, err |-> e]

Returned(t, v) == [log |-> t.log, ok |-> TRUE, value |-> v]

\* a status check that lets 400 itself through
HttpFailure_Above(res) == res.status > 400

\* res.status >= 400
HttpFailure(res) == res.status >= 400

HttpError(prefix, res) == Err("Error", <<prefix>>, Pad(res.status, 1))

getCityLocation(reply, city) ==
    LET t == timed(AdapterName("city"), reply)
    IN  IF ~t.ok THEN Thrown(t, t.err)
        ELSE IF HttpFailure(t.res) THEN Thrown(t, HttpError("Nominatim HTTP ", t.res))
        ELSE IF Len(t.res.data) = 0
             THEN Thrown(t, Err("Error", <<"City not found: ">>, city))
        ELSE LET first == t.res.data[1]
                 latitude == NumberOf(Get(first, "lat"))
                 longitude == NumberOf(Get(first, "lon"))
             IN  IF IsNaN(latitude) \/ IsNaN(longitude)
                 THEN Thrown(t, Err("Error", <<"Invalid coordinates for: ">>, city))
                 ELSE Returned(t, [city |-> city,
                                   displayName |-> Get(first, "display_name"),
                                   latitude |-> latitude,
                                   longitude |-> longitude])

getIssNow(reply) ==
    LET t == timed(AdapterName("iss"), reply)
    IN  IF ~t.ok THEN Thrown(t, t.err)
        ELSE IF HttpFailure(t.res) THEN Thrown(t, HttpError("ISS HTTP ", t.res))
        ELSE IF ~Has(t.res.data, "iss_position")
             THEN Thrown(t, Err("TypeError",
                     <<"Cannot read properties of undefined (reading 'latitude')">>, <<>>))
        ELSE LET lat == NumberOf(Get(t.res.data.iss_position, "latitude"))
                 lon == NumberOf(Get(t.res.data.iss_position, "longitude"))
             IN  IF IsNaN(lat) \/ IsNaN(lon)
                 THEN Thrown(t, Err("Error", <<"Invalid ISS coordinates">>, <<>>))
                 ELSE Returned(t, [latitude |-> lat, longitude |-> lon,
                                   timestamp |-> Get(t.res.data, "timestamp")])

getSpaceXNext(reply) ==
    LET t == timed(AdapterName("spacex"), reply)
    IN  IF ~t.ok THEN Thrown(t, t.err)
        ELSE IF HttpFailure(t.res) THEN Thrown(t, HttpError("SpaceX HTTP ", t.res))
        ELSE Returned(t, t.res.data)

getApod(reply) ==
    LET t == timed(AdapterName("apod"), reply)
    IN  IF ~t.ok THEN Thrown(t, t.err)
        ELSE IF HttpFailure(t.res) THEN Thrown(t, HttpError("APOD HTTP ", t.res))
        ELSE Returned(t, t.res.data)

getNeoFeed(reply) ==
    LET t == timed(AdapterName("neo"), reply)
    IN  IF ~t.ok THEN Thrown(t, t.err)
        ELSE IF HttpFailure(t.res) THEN Thrown(t, HttpError("NEO HTTP ", t.res))
        ELSE Returned(t, t.res.data)

\* the adapter a of the fan-out applied to its reply
FanOutAdapter(a, reply) ==
    CASE a = "iss" -> getIssNow(reply)
      [] a = "spacex" -> getSpaceXNext(reply)
      [] a = "apod" -> getApod(reply)
      [] a = "neo" -> getNeoFeed(reply)

(***************************************************************************)
(* Specification Spec: one run of main                                     *)
(***************************************************************************)
VARIABLES
    argv,       \* process.argv
    pc,         \* where main is: start, awaitCity, awaitAll, awaitWrite, exited
    exitCode,   \* -1 while running, then the exit code of the process
    stderr,     \* the error printed by main().catch, or NoError
    args,       \* what parseArgs returned
    range,      \* neoDays, startDate, endDate
    call,       \* per adapter: idle, pending, fulfilled, rejected
    sent,       \* per adapter: the parameters of its request
    reply,      \* per adapter: what its request settled with
    result,     \* per adapter: the value returned or the error thrown
    rejection,  \* the reason Promise.all rejected with, or NoError
    timedLog,   \* per adapter: the records timed handed to its log callback
    debug,      \* per adapter: the records logger.log printed (verbose only)
    briefing,   \* the record handed to fs.writeFile
    file,       \* the content of briefing.json
    writes,     \* how many times briefing.json has been written
    stdout      \* the lines of logger.info

mvars == <<argv, pc, exitCode, stderr, args, range, call, sent, reply, result,
           rejection, timedLog, debug, briefing, file, writes, stdout>>

Adapters == {"city", "iss", "spacex", "apod", "neo"}

\* the array given to Promise.all, lines 420-425
Parallel == {"iss", "spacex", "apod", "neo"}

S_20261102 == <<"2", "0", "2", "6", "-", "1", "1", "-", "0", "2">>
S_20241301 == <<"2", "0", "2", "4", "-", "1", "3", "-", "0", "1">>
S_slashes == <<"0", "1", "/", "0", "1", "/", "2", "0", "2", "4">>
S_iso == <<"2", "0", "2", "6", "-", "1", "2", "-", "0", "1", "T", "0", "0", ":",
           "0", "0", ":", "0", "0", "Z">>
S_name == <<"C", "r", "e", "w">>
S_title == <<"M", "8", "1">>
S_url == <<"h", "t", "t", "p", "s", ":", "/", "/", "x">>
S_image == <<"i", "m", "a", "g", "e">>

\* the command lines of the runs: each option absent, given without a value,
\* or given with one of a few values
CityArgs == {<<>>, <<Opt(S_city), S_Pune>>}
DaysArgs == {<<>>, <<Opt(S_days)>>} \cup
            {<<Opt(S_days), v>> : v \in {<<"3">>, <<"0">>, <<"-", "2">>, <<"x">>, <<"2", ".", "5">>}}
ModeArgs == {<<>>} \cup {<<Opt(S_mode), v>> : v \in {S_verbose, S_loud}}
DateArgs == {<<>>} \cup {<<Opt(S_date), v>> : v \in {S_20240101, S_20241301, S_slashes}}

\* new Date().toISOString().slice(0, 10) at the time of the run
TodayDates == {S_20261102}

\* the HTTP statuses an upstream answers with
Statuses == {200, 400, 503}

\* the bodies an upstream answers with under a status below 400
Bodies(a) ==
    CASE a = "city" ->
            {<<>>,
             <<[lat |-> <<"0">>, lon |-> <<"0">>, display_name |-> S_Pune]>>,
             <<[lat |-> S_abc, lon |-> <<"0">>, display_name |-> S_Pune]>>,
             <<[lon |-> <<"0">>, display_name |-> S_Pune]>>}
      [] a = "iss" ->
            {[iss_position |-> [latitude |-> <<"0">>, longitude |-> <<"0">>],
              timestamp |-> <<"1">>],
             [iss_position |-> [latitude |-> <<"0">>, longitude |-> <<"9", "0">>],
              timestamp |-> <<"1">>],
             [iss_position |-> [latitude |-> <<"0">>, longitude |-> S_abc],
              timestamp |-> <<"1">>],
             [iss_position |-> [longitude |-> <<"0">>], timestamp |-> <<"1">>],
             [timestamp |-> <<"1">>]}
      [] a = "spacex" ->
            {[name |-> S_name, date_utc |-> S_iso],
             [name |-> S_name, date_utc |-> S_abc],
             [name |-> S_name],
             [date_utc |-> S_iso]}
      [] a = "apod" ->
            {[date |-> S_20240101, title |-> S_title, media_type |-> S_image,
              url |-> S_url],
             [date |-> S_20240101, media_type |-> S_image, url |-> S_url],
             [date |-> S_20240101, title |-> S_title, media_type |-> S_image]}
      [] a = "neo" ->
            {[near_earth_objects |->
                 <<<<[is_potentially_hazardous_asteroid |-> FALSE,
                      estimated_diameter_max |-> Whole(50),
                      close_approach_data |-> <<[kilometers |-> S_5000000]>>]>>>>],
             [near_earth_objects |->
                 <<<<[is_potentially_hazardous_asteroid |-> TRUE,
                      estimated_diameter_max |-> Whole(600),
                      close_approach_data |-> <<[kilometers |-> S_2500000]>>]>>>>],
             NoFields}

\* the body of an answer of status 400 or more, which no adapter reads
ErrorBody(a) == IF a = "city" THEN <<>> ELSE NoFields

Replies(a) ==
    {TransportError}
    \cup {Response(st, b) : st \in {x \in Statuses : x < 400}, b \in Bodies(a)}
    \cup {Response(st, ErrorBody(a)) : st \in {x \in Statuses : x >= 400}}

\* (Date.parse(date_utc) - Date.now()) / 3_600_000 for a parseable date_utc,
\* whatever the clock says
LaunchHours == {Whole(-24), Whole(36)}

\* Number.isFinite(Date.parse(s))
DateParses(s) == s = S_iso

NoFile == [written |-> FALSE]

NoReply == [kind |-> "none"]

MainInit ==
    /\ argv \in {NodeArgv0 \o c \o d \o m \o t :
                    c \in CityArgs, d \in DaysArgs, m \in ModeArgs, t \in DateArgs}
    /\ pc = "start"
    /\ exitCode = -1
    /\ stderr = NoError
    /\ args = None
    /\ range = None
    /\ call = [a \in Adapters |-> "idle"]
    /\ sent = [a \in Adapters |-> NoFields]
    /\ reply = [a \in Adapters |-> NoReply]
    /\ result = [a \in Adapters |-> NoFields]
    /\ rejection = NoError
    /\ timedLog = [a \in Adapters |-> <<>>]
    /\ debug = [a \in Adapters |-> <<>>]
    /\ briefing = NoFile
    /\ file = NoFile
    /\ writes = 0
    /\ stdout = <<>>

\* makeLogger(mode).verbose
Verbose(mode) == mode = S_verbose

\* logger.log(m) after timed handed m to its log callback
LogTimed(a, m) ==
    /\ timedLog' = [timedLog EXCEPT ![a] = Append(@, m)]
    /\ debug' = IF Verbose(args.mode) THEN [debug EXCEPT ![a] = Append(@, m)]
                ELSE debug

\* main().catch: the message goes to the error stream, process.exit(1)
Exit1(e) ==
    /\ pc' = "exited"
    /\ exitCode' = 1
    /\ stderr' = e

\* all five calls made at once
StartedAtLaunch_Eager == Adapters

\* the calls made before main's first await: the city lookup alone, line 418
StartedAtLaunch == {"city"}

\* main up to its first await, lines 402-418
MainStart ==
    /\ pc = "start"
    /\ \E today \in TodayDates, lenient \in BOOLEAN :
          LET a == parseArgs(argv, today)
              r == DeriveRange(a.days, a.date, lenient)
          IN  IF ~a.ok
              THEN /\ Exit1(Err("Error", <<a.err>>, <<>>))
                   /\ UNCHANGED <<args, range, call, sent>>
              ELSE IF ~r.ok
              THEN /\ Exit1(Err("RangeError", <<r.err>>, <<>>))
                   /\ args' = a
                   /\ UNCHANGED <<range, call, sent>>
              ELSE /\ args' = a
                   /\ range' = r
                   /\ call' = [x \in Adapters |->
                                 IF x \in StartedAtLaunch THEN "pending" ELSE call[x]]
                   /\ sent' = [sent EXCEPT !["city"] = [q |-> a.city]]
                   /\ pc' = "awaitCity"
                   /\ UNCHANGED <<exitCode, stderr>>
    /\ UNCHANGED <<argv, reply, result, rejection, timedLog, debug, briefing,
                   file, writes, stdout>>

\* the requests of the four calls in the array of Promise.all, each made
\* before main awaits the array
FanOutRequests ==
    [a \in Adapters |->
        CASE a = "apod" -> [date |-> args.date]
          [] a = "neo" -> [start_date |-> range.startDate, end_date |-> range.endDate]
          [] OTHER -> IF a = "city" THEN sent[a] ELSE NoFields]

StartedAfterCity == Parallel

\* the city lookup settles; on success main goes on to the fan-out
CityResponse ==
    /\ pc = "awaitCity"
    /\ call["city"] = "pending"
    /\ \E r \in Replies("city") :
          LET o == getCityLocation(r, args.city)
          IN  /\ LogTimed("city", o.log)
              /\ reply' = [reply EXCEPT !["city"] = r]
              /\ IF o.ok
                 THEN /\ result' = [result EXCEPT !["city"] = o.value]
                      /\ call' = [a \in Adapters |->
                                    IF a = "city" THEN "fulfilled"
                                    ELSE IF a \in StartedAfterCity THEN "pending"
                                    ELSE call[a]]
                      /\ sent' = FanOutRequests
                      /\ pc' = "awaitAll"
                      /\ UNCHANGED <<exitCode, stderr>>
                 ELSE /\ result' = [result EXCEPT !["city"] = o.err]
                      /\ call' = [call EXCEPT !["city"] = "rejected"]
                      /\ Exit1(o.err)
                      /\ UNCHANGED sent
    /\ UNCHANGED <<argv, args, range, rejection, briefing, file, writes, stdout>>

\* a join that waits for every call to settle before it rejects
PromiseAll_Settled(c) ==
    IF \E a \in Parallel : c[a] = "pending" THEN "pending"
    ELSE IF \E a \in Parallel : c[a] = "rejected" THEN "rejected"
    ELSE "fulfilled"

\* Promise.all over the four calls: rejected as soon as one is, fulfilled
\* when all are
PromiseAll(c) ==
    IF \E a \in Parallel : c[a] = "rejected" THEN "rejected"
    ELSE IF \A a \in Parallel : c[a] = "fulfilled" THEN "fulfilled"
    ELSE "pending"

Null == <<"null">>

\* main, lines 427-466: the derived metrics and the briefing (generatedAt,
\* the clock's reading, is left out)
BuildBriefing(res, hoursToLaunch) ==
    LET location == res["city"]
        issNow == res["iss"]
        nextLaunch == res["spacex"]
        apod == res["apod"]
        neoFeed == res["neo"]
        issDistanceKm == haversineKm(location.latitude, location.longitude,
                                     issNow.latitude, issNow.longitude)
        neoSummary == summarizeNeos(neoFeed, range.neoDays)
        threat == computeThreat(neoSummary, issDistanceKm, hoursToLaunch)
    IN  [input |-> [city |-> args.city, days |-> args.days, date |-> args.date,
                    mode |-> args.mode],
         location |-> location,
         iss |-> [latitude |-> issNow.latitude, longitude |-> issNow.longitude,
                  distanceKm |-> issDistanceKm, timestamp |-> issNow.timestamp],
         nextLaunch |-> [name |-> Get(nextLaunch, "name"),
                         dateUtc |-> Get(nextLaunch, "date_utc"),
                         hoursToLaunch |-> hoursToLaunch,
                         webcast |-> Null],
         apod |-> [date |-> Get(apod, "date"), title |-> Get(apod, "title"),
                   mediaType |-> Get(apod, "media_type"), url |-> Get(apod, "url")],
         neo |-> neoSummary,
         threat |-> threat]

\* JSON.stringify leaves out the properties whose value is undefined; strs
\* are the string-valued properties of obj
Stringify(obj, strs) ==
    [f \in {g \in DOMAIN obj : g \notin strs \/ obj[g] # Undefined} |-> obj[f]]

JsonOfBriefing(b) ==
    [written |-> TRUE,
     input |-> b.input,
     location |-> Stringify(b.location, {"city", "displayName"}),
     iss |-> Stringify(b.iss, {"timestamp"}),
     nextLaunch |-> Stringify(b.nextLaunch, {"name", "dateUtc", "webcast"}),
     apod |-> Stringify(b.apod, {"date", "title", "mediaType", "url"}),
     neo |-> b.neo,
     threat |-> b.threat]

\* one call of the fan-out settles; main resumes when Promise.all settles,
\* and on success computes the briefing and starts the write, lines 420-472
FanOutResponse(a) ==
    /\ pc = "awaitAll"
    /\ call[a] = "pending"
    /\ \E r \in Replies(a) :
          LET o == FanOutAdapter(a, r)
              c2 == [call EXCEPT ![a] = IF o.ok THEN "fulfilled" ELSE "rejected"]
              r2 == [result EXCEPT ![a] = IF o.ok THEN o.value ELSE o.err]
              rej == IF ~o.ok /\ rejection = NoError THEN o.err ELSE rejection
              join == PromiseAll(c2)
          IN  /\ LogTimed(a, o.log)
              /\ reply' = [reply EXCEPT ![a] = r]
              /\ call' = c2
              /\ result' = r2
              /\ rejection' = rej
              /\ CASE join = "rejected" ->
                        /\ Exit1(rej)
                        /\ UNCHANGED <<briefing, writes>>
                   [] join = "pending" ->
                        UNCHANGED <<pc, exitCode, stderr, briefing, writes>>
                   [] join = "fulfilled" ->
                        /\ \E hours \in (IF DateParses(Get(r2["spacex"], "date_utc"))
                                         THEN LaunchHours ELSE {Whole(0)}) :
                              briefing' = BuildBriefing(r2, hours)
                        /\ writes' = writes + 1
                        /\ pc' = "awaitWrite"
                        /\ UNCHANGED <<exitCode, stderr>>
    /\ UNCHANGED <<argv, args, range, sent, file, stdout>>

InfoLines ==
    <<"Mission Briefing", "Date", "ISS distance", "Next launch", "APOD", "NEOs",
      "Threat Level", "Saved">>

WriteError == Err("Error", <<"EACCES: permission denied, open 'briefing.json'">>, <<>>)

\* fs.writeFile settles, lines 468-490: on success the summary is printed
\* and the process ends with code 0; a failed write ends it with code 1,
\* with the file untouched (it could not be opened) or cut short
WriteSettles ==
    /\ pc = "awaitWrite"
    /\ \/ /\ file' = JsonOfBriefing(briefing)
          /\ stdout' = InfoLines
          /\ pc' = "exited"
          /\ exitCode' = 0
          /\ UNCHANGED stderr
       \/ /\ file' \in {file, [written |-> TRUE, truncated |-> TRUE]}
          /\ Exit1(WriteError)
          /\ UNCHANGED stdout
    /\ UNCHANGED <<argv, args, range, call, sent, reply, result, rejection,
                   timedLog, debug, briefing, writes>>

RangeIdle ==
    /\ rArgv = <<>>
    /\ rToday = <<>>
    /\ rParsed = None
    /\ rRange = None
    /\ rPc = "idle"

NeoIdle ==
    /\ nFeed = NoFields
    /\ nDays = Whole(0)
    /\ nAll = <<>>
    /\ nAcc = SummaryStart
    /\ nSummary = NoSummary
    /\ nIss = Whole(0)
    /\ nHours = Whole(0)
    /\ nThreat = NoThreat
    /\ nRaised = [summary |-> NoSummary, threat |-> NoThreat]
    /\ nPc = "idle"

MainIdle ==
    /\ argv = <<>>
    /\ pc = "idle"
    /\ exitCode = -1
    /\ stderr = NoError
    /\ args = None
    /\ range = None
    /\ call = [a \in Adapters |-> "idle"]
    /\ sent = [a \in Adapters |-> NoFields]
    /\ reply = [a \in Adapters |-> NoReply]
    /\ result = [a \in Adapters |-> NoFields]
    /\ rejection = NoError
    /\ timedLog = [a \in Adapters |-> <<>>]
    /\ debug = [a \in Adapters |-> <<>>]
    /\ briefing = NoFile
    /\ file = NoFile
    /\ writes = 0
    /\ stdout = <<>>

Next ==
    \/ MainStart /\ UNCHANGED <<rvars, nvars>>
    \/ CityResponse /\ UNCHANGED <<rvars, nvars>>
    \/ \E a \in Parallel : FanOutResponse(a) /\ UNCHANGED <<rvars, nvars>>
    \/ WriteSettles /\ UNCHANGED <<rvars, nvars>>

vars == <<mvars, rvars, nvars>>

Init == MainInit /\ RangeIdle /\ NeoIdle

Spec == Init /\ [][Next]_vars

RangeNext ==
    \/ RangeParse /\ UNCHANGED <<mvars, nvars>>
    \/ RangeDerive /\ UNCHANGED <<mvars, nvars>>

RangeSpecInit == RangeInit /\ MainIdle /\ NeoIdle

SpecRange == RangeSpecInit /\ [][RangeNext]_vars

NeoNext ==
    \/ NeoStart /\ UNCHANGED <<mvars, rvars>>
    \/ NeoLoopStep /\ UNCHANGED <<mvars, rvars>>
    \/ NeoReturn /\ UNCHANGED <<mvars, rvars>>
    \/ ThreatEval /\ UNCHANGED <<mvars, rvars>>
    \/ ThreatRaise /\ UNCHANGED <<mvars, rvars>>

NeoSpecInit == NeoInit /\ MainIdle /\ RangeIdle

SpecNeo == NeoSpecInit /\ [][NeoNext]_vars

(***************************************************************************)
(* Properties of a run (specification Spec)                                *)
(***************************************************************************)
Settled(a) == call[a] \in {"fulfilled", "rejected"}

\* the request of a settled with a response of status below 400
Answered(a) == reply[a].kind = "response" /\ reply[a].status < 400

\* the request of a failed: no response, or one of status 400 or more
Failed(a) ==
    reply[a].kind = "error" \/ (reply[a].kind = "response" /\ reply[a].status >= 400)

NothingWritten == ~file.written /\ writes = 0 /\ briefing = NoFile

Aborted == pc = "exited" /\ exitCode = 1

\* C1: when the city lookup is answered with zero candidates, the run has
\* ended with exit code 1, none of the other four adapters has been invoked
\* (no call, no request, no timing record) and briefing.json is not written.
C1_CityNotFound ==
    (reply["city"].kind = "response" /\ Len(reply["city"].data) = 0) =>
        /\ Aborted
        /\ \A a \in Parallel :
              call[a] = "idle" /\ sent[a] = NoFields /\ timedLog[a] = <<>>
        /\ NothingWritten

\* C1 witness: a 200 answer with an empty candidate list ended the run with
\* the "City not found" error
C1_Witness ==
    /\ reply["city"] = Response(200, <<>>)
    /\ Aborted
    /\ stderr = Err("Error", <<"City not found: ">>, S_Pune)

\* C2: briefing.json is written at most once, and only when all five adapter
\* calls are fulfilled; a call that fails by transport error or by a status
\* of 400 or more ends the run with exit code 1 and nothing written.
C2_NoPartialBriefing ==
    /\ writes <= 1
    /\ (~NothingWritten => \A a \in Adapters : call[a] = "fulfilled")
    /\ \A a \in Adapters : Failed(a) => Aborted /\ NothingWritten

\* C2 witness: three calls of the fan-out are fulfilled, the fourth got a
\* status of 400 or more, and the run ended with code 1 and no file
C2_Witness ==
    /\ \E a \in Parallel :
          /\ reply[a].kind = "response" /\ reply[a].status >= 400
          /\ \A b \in Parallel \ {a} : call[b] = "fulfilled"
    /\ Aborted
    /\ NothingWritten

\* C3: the four calls of the fan-out are started only after the city lookup
\* is fulfilled and all four together, before any of them settles; main goes
\* on to the metrics only when all four are fulfilled; and when one is
\* rejected the run has ended with that call's error, whatever the state of
\* the other three.
C3_FanOut ==
    /\ \A a \in Parallel : call[a] # "idle" => call["city"] = "fulfilled"
    /\ (\E a \in Parallel : call[a] # "idle") => \A a \in Parallel : call[a] # "idle"
    /\ (pc = "awaitAll" => \A a \in Parallel : call[a] # "idle")
    /\ (pc = "awaitWrite" \/ briefing # NoFile
            => \A a \in Parallel : call[a] = "fulfilled")
    /\ \A a \in Parallel :
          call[a] = "rejected" =>
              /\ Aborted
              /\ stderr = result[a]
              /\ \A b \in Parallel \ {a} : call[b] # "rejected"

\* C3 witness: one call was rejected while the other three were still in
\* flight, and the run ended with its error
C3_Witness ==
    \E a \in Parallel :
        /\ call[a] = "rejected"
        /\ \A b \in Parallel \ {a} : call[b] = "pending"
        /\ Aborted
        /\ stderr = result[a]

\* whether the command line has --key, and the value parseArgs takes for it
Given(key) == \E i \in 1..Len(argv) : argv[i] = Opt(key)

ValueGiven(key) ==
    LET i == CHOOSE j \in 1..Len(argv) : argv[j] = Opt(key)
    IN  IF i < Len(argv) /\ ~StartsWith(argv[i + 1], DashDash) THEN argv[i + 1]
        ELSE S_true

BadDaysValue ==
    Given(S_days) /\ (IsNaN(NumberOf(ValueGiven(S_days)))
                        \/ LessThanInt(NumberOf(ValueGiven(S_days)), 1))

BadMode == Given(S_mode) /\ ValueGiven(S_mode) \notin {S_stealth, S_verbose}

BadDate == Given(S_date) /\ ~DateRegexTest(ValueGiven(S_date))

NoNetwork == \A a \in Adapters : call[a] = "idle" /\ sent[a] = NoFields

\* C4 as stated: a run whose city is absent, whose days is absent,
\* non-numeric or less than 1, whose mode is neither stealth nor verbose, or
\* whose date does not match YYYY-MM-DD ends with exit code 1, no adapter
\* invoked and no file.
C4_AsStated ==
    (pc # "start" /\ (~Given(S_city) \/ ~Given(S_days) \/ BadDaysValue
                        \/ BadMode \/ BadDate)) =>
        Aborted /\ NoNetwork /\ NothingWritten

\* C4 as amended: a run whose city is absent, whose days is given and is
\* non-numeric or less than 1, whose mode is neither stealth nor verbose, or
\* whose date does not match YYYY-MM-DD ends with exit code 1 and the
\* argument's message, no adapter invoked and no file; an absent days is 3.
C4_ArgumentErrors ==
    /\ (pc # "start" /\ (~Given(S_city) \/ BadDaysValue \/ BadMode \/ BadDate)) =>
          /\ Aborted /\ NoNetwork /\ NothingWritten
          /\ stderr.text \in {<<E_city>>, <<E_days>>, <<E_mode>>, <<E_date>>}
    /\ (pc # "start" /\ args.ok /\ ~Given(S_days)) => args.days = Whole(3)

\* C4 witness: a run with --days 0 ended with the days message before any
\* call
C4_Witness ==
    /\ Given(S_city) /\ Given(S_days) /\ ValueGiven(S_days) = <<"0">>
    /\ Aborted
    /\ stderr = Err("Error", <<E_days>>, <<>>)
    /\ NoNetwork

GenericFailure(a) == Err("Error", <<AdapterName(a), " failed">>, <<>>)

\* C9 as stated: a call that failed (transport error, or a status of 400 or
\* more) has exactly one timing record, with the adapter's name and ok false,
\* and its error is the generic "<name> failed"; a call that succeeded has
\* exactly one record, with ok true and the status.
C9_AsStated ==
    \A a \in Adapters :
        /\ Failed(a) =>
              /\ timedLog[a] = <<[name |-> AdapterName(a), ok |-> FALSE]>>
              /\ result[a] = GenericFailure(a)
        /\ Answered(a) =>
              timedLog[a] = <<[name |-> AdapterName(a), status |-> reply[a].status,
                               ok |-> TRUE]>>

\* C9 as amended: a call whose request failed in transport has exactly one
\* timing record, with the adapter's name and ok false, and its error, which
\* ends the run, is the generic "<name> failed"; a call whose request got a
\* response, of whatever status, has exactly one record, with ok true and
\* that status, and under a status of 400 or more its error is the adapter's
\* own HTTP error carrying the status, not the generic one.  A call that has
\* not settled has no record.  In verbose mode, and only then, each record is
\* printed.
C9_Timed ==
    \A a \in Adapters :
        /\ reply[a].kind = "error" =>
              /\ timedLog[a] = <<[name |-> AdapterName(a), ok |-> FALSE]>>
              /\ result[a] = GenericFailure(a)
              /\ stderr = GenericFailure(a)
        /\ reply[a].kind = "response" =>
              /\ timedLog[a] = <<[name |-> AdapterName(a), status |-> reply[a].status,
                                  ok |-> TRUE]>>
              /\ (reply[a].status >= 400 =>
                    /\ result[a].arg = Pad(reply[a].status, 1)
                    /\ result[a] # GenericFailure(a)
                    /\ stderr = result[a])
        /\ reply[a].kind = "none" => timedLog[a] = <<>>
        /\ debug[a] = IF args.ok /\ Verbose(args.mode) THEN timedLog[a] ELSE <<>>

\* C9 witness: one call failed in transport and another was answered, each
\* with its one record
C9_Witness ==
    /\ reply["city"].kind = "response"
    /\ Len(timedLog["city"]) = 1
    /\ \E a \in Parallel :
          /\ reply[a].kind = "error"
          /\ timedLog[a] = <<[name |-> AdapterName(a), ok |-> FALSE]>>
          /\ stderr = GenericFailure(a)

\* the fields of an answer that the briefing is built from
Malformed(a) ==
    /\ Answered(a)
    /\ CASE a = "city" ->
              /\ Len(reply[a].data) > 0
              /\ \/ IsNaN(NumberOf(Get(reply[a].data[1], "lat")))
                 \/ IsNaN(NumberOf(Get(reply[a].data[1], "lon")))
         [] a = "iss" ->
              \/ ~Has(reply[a].data, "iss_position")
              \/ IsNaN(NumberOf(Get(reply[a].data.iss_position, "latitude")))
              \/ IsNaN(NumberOf(Get(reply[a].data.iss_position, "longitude")))
         [] a = "spacex" ->
              ~Has(reply[a].data, "name") \/ ~Has(reply[a].data, "date_utc")
         [] a = "apod" ->
              ~Has(reply[a].data, "title") \/ ~Has(reply[a].data, "url")
         [] a = "neo" -> ~Has(reply[a].data, "near_earth_objects")

\* C10: an adapter whose answer lacks a required field, or has a numeric
\* field that does not parse, fails, so that the run ends with exit code 1
\* and nothing is written.
C10_AsStated ==
    \A a \in Adapters :
        Malformed(a) => call[a] = "rejected" /\ Aborted /\ NothingWritten

(***************************************************************************)
(* Properties of summarizeNeos and computeThreat (specification SpecNeo)   *)
(***************************************************************************)
\* C6: in summarizeNeos, after each object processed, hazardousCount is at
\* most totalCount and the three bucket counters sum to totalCount; the
\* returned summary satisfies both, and its minMissDistanceKm is not below 0.
C6_AsStated ==
    /\ nPc = "loop" =>
          /\ nAcc.hazardousCount <= nAcc.totalCount
          /\ nAcc.lt3 + nAcc.gte3lt4 + nAcc.gte4 = nAcc.totalCount
    /\ nPc \in {"summarized", "scored", "compared"} =>
          /\ nSummary.hazardousCount <= nSummary.totalCount
          /\ nSummary.buckets.lt3 + nSummary.buckets.gte3lt4 + nSummary.buckets.gte4
                = nSummary.totalCount
          /\ ~Less(nSummary.minMissDistanceKm, Whole(0))

\* C6, the counts alone: after each object and in the returned summary,
\* hazardousCount is at most totalCount and the buckets sum to totalCount.
C6_Counts ==
    /\ nPc = "loop" =>
          /\ nAcc.hazardousCount <= nAcc.totalCount
          /\ nAcc.lt3 + nAcc.gte3lt4 + nAcc.gte4 = nAcc.totalCount
          /\ nAcc.totalCount + Len(nAll) = Len(AllNeos(nFeed))
    /\ nPc \in {"summarized", "scored", "compared"} =>
          /\ nSummary.totalCount = Len(AllNeos(nFeed))
          /\ nSummary.hazardousCount <= nSummary.totalCount
          /\ nSummary.buckets.lt3 + nSummary.buckets.gte3lt4 + nSummary.buckets.gte4
                = nSummary.totalCount

MaxOf(a, b) == IF a >= b THEN a ELSE b

MinOf(a, b) == IF a <= b THEN a ELSE b

\* 3,000,000 times the weighted sum of a summary whose distance and diameter
\* are whole numbers, for a whole ISS distance and whole hours to launch
WeightedSum(neo, iss, hours) ==
    9000000 * neo.hazardousCount
    + 600000 * neo.totalCount
    + (IF neo.minMissDistanceKm.num = 0 THEN 0
       ELSE 4 * MaxOf(0, 9000000 - 3 * neo.minMissDistanceKm.num))
    + 2 * MinOf(15000000, 30000 * neo.maxEstimatedDiameterMeters.num)
    + 2 * MaxOf(0, 6000000 - 1500 * iss.num)
    + MaxOf(0, 6000000 - 125000 * hours.num)

ExampleFeed ==
    [near_earth_objects |->
        <<<<[is_potentially_hazardous_asteroid |-> FALSE,
             estimated_diameter_max |-> Whole(50),
             close_approach_data |-> <<[kilometers |-> S_5000000]>>]>>, <<>>>>]

\* C7: the score computeThreat returns is the weighted sum 3*hazardousCount +
\* 0.2*totalCount + 4*missRisk + 2*min(5, diameter/100) + 2*max(0, 2 -
\* iss/2000) + max(0, 2 - hours/24), with missRisk 0 for a minimum of exactly
\* 0 and max(0, 3 - minMiss/1000000) otherwise, rounded to the nearest integer
\* (halves upwards); the level is HIGH from 18, MEDIUM from 10, LOW below;
\* and the feed of one non-hazardous object of 50 m at 5,000,000 km, with ISS
\* distance 0 and 0 hours to launch, has the stated summary and level LOW.
C7_Threat ==
    nPc \in {"scored", "compared"} =>
        LET w == WeightedSum(nSummary, nIss, nHours)
            s == nThreat.score
        IN  /\ nSummary.minMissDistanceKm.den = 1
            /\ nSummary.maxEstimatedDiameterMeters.den = 1
            /\ 3000000 * s <= w + 1500000
            /\ w + 1500000 < 3000000 * (s + 1)
            /\ nThreat.level = (IF s >= 18 THEN "HIGH"
                                ELSE IF s >= 10 THEN "MEDIUM" ELSE "LOW")
            /\ (nFeed = ExampleFeed /\ nIss = Whole(0) /\ nHours = Whole(0)) =>
                  /\ nSummary.totalCount = 1
                  /\ nSummary.hazardousCount = 0
                  /\ nSummary.maxEstimatedDiameterMeters = Whole(50)
                  /\ nSummary.minMissDistanceKm = Whole(5000000)
                  /\ nSummary.buckets = [lt3 |-> 1, gte3lt4 |-> 0, gte4 |-> 0]
                  /\ nThreat.level = "LOW"

\* C7 witness: the example feed scored at ISS distance 0 and 0 hours to
\* launch: 0.2 + 0 + 1 + 4 + 2 rounds to 7, LOW
C7_Witness ==
    /\ nPc = "scored"
    /\ nFeed = ExampleFeed
    /\ nIss = Whole(0)
    /\ nHours = Whole(0)
    /\ nThreat = [score |-> 7, level |-> "LOW"]

LevelRank(level) ==
    CASE level = "LOW" -> 0 [] level = "MEDIUM" -> 1 [] level = "HIGH" -> 2

\* C8: of two summaries that differ only in hazardousCount, scored with the
\* same ISS distance and hours to launch, the one with the larger
\* hazardousCount has neither the smaller score nor the lower level.
C8_Monotone ==
    nPc = "compared" =>
        /\ nRaised.summary.hazardousCount > nSummary.hazardousCount
        /\ [nRaised.summary EXCEPT !.hazardousCount = nSummary.hazardousCount] = nSummary
        /\ nThreat.score <= nRaised.threat.score
        /\ LevelRank(nThreat.level) <= LevelRank(nRaised.threat.level)

\* C8 witness: one more hazardous object in the summary lifts the level
\* from LOW to MEDIUM
C8_Witness ==
    /\ nPc = "compared"
    /\ nRaised.summary.hazardousCount = nSummary.hazardousCount + 1
    /\ nThreat.level = "LOW"
    /\ nRaised.threat.level = "MEDIUM"
    /\ nRaised.threat.score = nThreat.score + 3

\* the objects whose first close-approach entry has a distance that is there
\* and is numeric, and the distances of these entries
ValidFirstEntry(neo) ==
    /\ "close_approach_data" \in DOMAIN neo
    /\ Len(neo.close_approach_data) >= 1
    /\ "kilometers" \in DOMAIN neo.close_approach_data[1]
    /\ neo.close_approach_data[1].kilometers # <<>>
    /\ ~IsNaN(NumberOf(neo.close_approach_data[1].kilometers))

ValidMisses(all) ==
    {NumberOf(all[i].close_approach_data[1].kilometers) :
        i \in {j \in 1..Len(all) : ValidFirstEntry(all[j])}}

Smallest(S) == CHOOSE x \in S : \A y \in S : ~Less(y, x)

\* the objects the loop has processed so far
Processed == SubSeq(AllNeos(nFeed), 1, Len(AllNeos(nFeed)) - Len(nAll))

\* C11: in summarizeNeos only the first close-approach entry of an object
\* counts; an object whose first entry has no distance or a non-numeric one
\* never changes the running minimum (which is +Infinity until a valid entry
\* is met); the returned minMissDistanceKm is the smallest valid first-entry
\* distance over all objects, and 0 when no object has one; and the summary is
\* returned for every feed.
C11_AsStated ==
    /\ nPc = "loop" =>
          nAcc.minMissDistanceKm
              = (IF ValidMisses(Processed) = {} THEN PositiveInfinity
                 ELSE Smallest(ValidMisses(Processed)))
    /\ nPc \in {"summarized", "scored", "compared"} =>
          /\ nSummary # NoSummary
          /\ nSummary.minMissDistanceKm
                = (IF ValidMisses(AllNeos(nFeed)) = {} THEN Whole(0)
                   ELSE Smallest(ValidMisses(AllNeos(nFeed))))

\* C11, the finite distances alone: for a feed none of whose first entries
\* reads as an infinite number, the minimum is as C11 states.
C11_FiniteEntries ==
    (\A x \in ValidMisses(AllNeos(nFeed)) : IsFinite(x)) => C11_AsStated

====
